---- MODULE Spec2Model ----
(***************************************************************************)
(* validate_feed.py: the RSS/Atom feed validator and its command line.     *)
(*                                                                         *)
(* validate_rss_feed is a pure function of the URL and of what the network *)
(* and the XML parser give back for it; it is the operator                 *)
(* validate_rss_feed below.  main() is the state machine: the argument     *)
(* namespace is read, the URL list is built, the loop body runs once per   *)
(* URL, and the process exits.                                             *)
(*                                                                         *)
(* Conventions.  An optional value (Python None or a value) is a sequence  *)
(* of length at most one: None is << >>, the string s is <<s>>.  An XML    *)
(* element is a record [tag, text, children]; text is optional, as in      *)
(* ElementTree (an empty element has text None).  A line of the batch file *)
(* is a sequence of one-character strings, so that strip() and             *)
(* startswith() act on characters; every other str is a string.            *)
(***************************************************************************)
EXTENDS Integers, Sequences, FiniteSets, TLC

VARIABLES pc, args, urls, i, results, network, stdout, exitCode

vars == <<pc, args, urls, i, results, network, stdout, exitCode>>

(***************************************************************************)
(* Bounds of the model.                                                    *)
(***************************************************************************)
\* Feeds whose items range over every title/pubDate combination have at most
\* this many items.
MaxShortItems == 2
\* Feeds whose items range over the three item shapes of LongItems have at
\* most this many items.
MaxItems == 7
\* The batch file has at most this many lines.
MaxLines == 2

(***************************************************************************)
(* Program constants.                                                      *)
(***************************************************************************)
\* items[:5], entries[:5]
SampleSize == 5
\* result["item_count"] < 2
MinItems == 2

None == << >>
Some(v) == <<v>>

\* Python truth value of an optional string: None and "" are false.
Truthy(opt) == opt # None /\ opt[1] # ""

Min(a, b) == IF a < b THEN a ELSE b

\* s[:n]
Take(s, n) == SubSeq(s, 1, Min(n, Len(s)))

(***************************************************************************)
(* xml.etree.ElementTree, as the validator uses it.                        *)
(***************************************************************************)
Element(tag, text, children) == [tag |-> tag, text |-> text, children |-> children]

\* Element.findall(tag): the direct children with that tag, in document order.
findall(elem, tag) == SelectSeq(elem.children, LAMBDA c : c.tag = tag)

\* Element.find(tag): the first such child, or None.
find(elem, tag) == Take(findall(elem, tag), 1)

\* Element.findtext(tag, default): default when there is no such child, ""
\* when its text is None, its text otherwise.
findtext(elem, tag, default) ==
    LET e == find(elem, tag)
    IN  IF e = None THEN default
        ELSE IF e[1].text = None THEN "" ELSE e[1].text[1]

AtomNS == "{http://www.w3.org/2005/Atom}"

(***************************************************************************)
(* The exceptions the fetch and parse steps raise, each with the classes   *)
(* an except clause matches it by (its class and its base classes).        *)
(***************************************************************************)
Bases(cls) ==
    CASE cls = "ReadTimeout" ->
            {"ReadTimeout", "Timeout", "RequestException", "OSError", "Exception"}
      [] cls = "ConnectTimeout" ->
            {"ConnectTimeout", "ConnectionError", "Timeout", "RequestException",
             "OSError", "Exception"}
      [] cls = "HTTPError" ->
            {"HTTPError", "RequestException", "OSError", "Exception"}
      [] cls = "ParseError" ->
            {"ParseError", "SyntaxError", "Exception"}
      [] cls = "ConnectionError" ->
            {"ConnectionError", "RequestException", "OSError", "Exception"}
      [] cls = "MissingSchema" ->
            {"MissingSchema", "RequestException", "ValueError", "OSError", "Exception"}

\* An exception: its class, the status code of e.response (HTTPError only,
\* 0 otherwise) and str(e).
Exception(cls, status, msg) == [cls |-> cls, status |-> status, msg |-> msg]

\* A response body: bytes ET.fromstring parses to the element tree root, or
\* bytes it rejects with a ParseError whose str() is msg.
WellFormed(root) == [error |-> None, root |-> root]
Malformed(msg) == [error |-> Some(msg), root |-> Element("", None, << >>)]

\* What requests.get does for a URL: it raises, or it returns a response
\* with a status code and a body.
GetRaises(exc) == [raises |-> Some(exc), status_code |-> 0, content |-> Malformed("")]
Response(status, body) == [raises |-> None, status_code |-> status, content |-> body]

\* response.raise_for_status(): HTTPError for a 4xx or 5xx status, nothing
\* for any other status.  None when it returns, the exception when it raises.
raise_for_status(response) ==
    IF 400 <= response.status_code /\ response.status_code < 600
    THEN Some(Exception("HTTPError", response.status_code,
                        ToString(response.status_code) \o " Error"))
    ELSE None

\* ET.fromstring(response.content): None when it returns, the exception
\* when it raises.
fromstring(content) ==
    IF content.error # None
    THEN Some(Exception("ParseError", 0, content.error[1]))
    ELSE None

(***************************************************************************)
(* validate_rss_feed                                                       *)
(***************************************************************************)
\* Mutant of InitialResult: title starts as the empty string, not None.
InitialResult_EmptyTitle(url) ==
    [url |-> url, valid |-> FALSE, title |-> Some(""), item_count |-> 0,
     latest_date |-> None, sample_headlines |-> << >>, language |-> None,
     errors |-> << >>]

\* result = {...}: the result as initialised, before the fetch.
InitialResult(url) ==
    [url |-> url, valid |-> FALSE, title |-> None, item_count |-> 0,
     latest_date |-> None, sample_headlines |-> << >>, language |-> None,
     errors |-> << >>]

\* Mutant of SampleItems: the loops visit every item.
SampleItems_All(items) == items

\* items[:5] and entries[:5]: the items the sampling loops visit.
SampleItems(items) == Take(items, SampleSize)

\* Mutant of RssItemBody: every dated item overwrites latest_date.
RssItemBody_LastDateWins(result, item) ==
    LET title == findtext(item, "title", "")
        r1 == IF title # ""
              THEN [result EXCEPT !.sample_headlines = Append(@, title)]
              ELSE result
        pub_date == findtext(item, "pubDate", "")
    IN  IF pub_date # ""
        THEN [r1 EXCEPT !.latest_date = Some(pub_date)]
        ELSE r1

\* Mutant of RssItemBody: the title is inserted at the front of the list.
RssItemBody_Prepends(result, item) ==
    LET title == findtext(item, "title", "")
        r1 == IF title # ""
              THEN [result EXCEPT !.sample_headlines = <<title>> \o @]
              ELSE result
        pub_date == findtext(item, "pubDate", "")
    IN  IF pub_date # "" /\ ~Truthy(r1.latest_date)
        THEN [r1 EXCEPT !.latest_date = Some(pub_date)]
        ELSE r1

\* One pass of the loop over RSS items: the title is appended when
\* non-empty, and pubDate is kept when non-empty and latest_date is not set.
RssItemBody(result, item) ==
    LET title == findtext(item, "title", "")
        r1 == IF title # ""
              THEN [result EXCEPT !.sample_headlines = Append(@, title)]
              ELSE result
        pub_date == findtext(item, "pubDate", "")
    IN  IF pub_date # "" /\ ~Truthy(r1.latest_date)
        THEN [r1 EXCEPT !.latest_date = Some(pub_date)]
        ELSE r1

\* for item in items: the loop body applied to each item in order.
RECURSIVE RssItemLoop(_, _)
RssItemLoop(result, items) ==
    IF items = << >> THEN result
    ELSE RssItemLoop(RssItemBody(result, Head(items)), Tail(items))

\* One pass of the loop over Atom entries.
AtomEntryBody(result, entry) ==
    LET title == findtext(entry, AtomNS \o "title", "")
    IN  IF title # ""
        THEN [result EXCEPT !.sample_headlines = Append(@, title)]
        ELSE result

RECURSIVE AtomEntryLoop(_, _)
AtomEntryLoop(result, entries) ==
    IF entries = << >> THEN result
    ELSE AtomEntryLoop(AtomEntryBody(result, Head(entries)), Tail(entries))

\* The branch taken for root.tag == "rss".
RssBranch(result, root) ==
    LET channel == find(root, "channel")
    IN  IF channel = None THEN result
        ELSE LET items == findall(channel[1], "item")
                 r1 == [result EXCEPT
                           !.title = Some(findtext(channel[1], "title", "")),
                           !.language = Some(findtext(channel[1], "language", "")),
                           !.item_count = Len(items)]
             IN  RssItemLoop(r1, SampleItems(items))

\* The branch taken for the Atom-namespaced feed root.
AtomBranch(result, root) ==
    LET entries == findall(root, AtomNS \o "entry")
        r1 == [result EXCEPT
                  !.title = Some(findtext(root, AtomNS \o "title", "")),
                  !.item_count = Len(entries)]
    IN  AtomEntryLoop(r1, SampleItems(entries))

\* Mutant of ValidationChecks: valid is set from the item count alone.
ValidationChecks_ValidByCount(result) ==
    LET r1 == IF result.item_count < MinItems
              THEN [result EXCEPT !.errors = Append(@, "Feed has fewer than 2 items")]
              ELSE result
        r2 == IF r1.sample_headlines = << >>
              THEN [r1 EXCEPT !.errors = Append(@, "No headlines found in feed")]
              ELSE r1
    IN  [r2 EXCEPT !.valid = (r2.item_count >= MinItems)]

\* Mutant of ValidationChecks: a feed of exactly 2 items counts as too short.
ValidationChecks_OffByOne(result) ==
    LET r1 == IF result.item_count <= MinItems
              THEN [result EXCEPT !.errors = Append(@, "Feed has fewer than 2 items")]
              ELSE result
        r2 == IF r1.sample_headlines = << >>
              THEN [r1 EXCEPT !.errors = Append(@, "No headlines found in feed")]
              ELSE r1
    IN  [r2 EXCEPT !.valid = (Len(r2.errors) = 0)]

\* The validation checks, and valid computed from the errors.
ValidationChecks(result) ==
    LET r1 == IF result.item_count < MinItems
              THEN [result EXCEPT !.errors = Append(@, "Feed has fewer than 2 items")]
              ELSE result
        r2 == IF r1.sample_headlines = << >>
              THEN [r1 EXCEPT !.errors = Append(@, "No headlines found in feed")]
              ELSE r1
    IN  [r2 EXCEPT !.valid = (Len(r2.errors) = 0)]

\* Mutant of UnknownFormat: no early return, the checks run as well.
UnknownFormat_FallsThrough(result, root) ==
    ValidationChecks(
        [result EXCEPT !.errors = Append(@, "Unknown feed format: " \o root.tag)])

\* The else branch of the format dispatch: the error is appended and the
\* result returned at once.
UnknownFormat(result, root) ==
    [result EXCEPT !.errors = Append(@, "Unknown feed format: " \o root.tag)]

\* The try block from the format dispatch on, for a parsed root.
FormatDispatch(result, root) ==
    IF root.tag = "rss" THEN ValidationChecks(RssBranch(result, root))
    ELSE IF root.tag = AtomNS \o "feed" THEN ValidationChecks(AtomBranch(result, root))
    ELSE UnknownFormat(result, root)

\* Mutant of ExceptClauses: the catch-all clause is missing.
ExceptClauses_NoCatchAll == <<"Timeout", "HTTPError", "ParseError">>

\* The except clauses, in the order they are written.
ExceptClauses == <<"Timeout", "HTTPError", "ParseError", "Exception">>

\* The entry an except clause appends for the exception it caught.
HandlerMessage(clause, exc) ==
    CASE clause = "Timeout" -> "Request timed out"
      [] clause = "HTTPError" -> "HTTP error: " \o ToString(exc.status)
      [] clause = "ParseError" -> "XML parse error: " \o exc.msg
      [] clause = "Exception" -> "Error: " \o exc.msg

\* try/except: the first clause naming a class of the exception handles it;
\* an exception no clause names propagates to the caller.
Handle(result, exc) ==
    LET matching == SelectSeq(ExceptClauses, LAMBDA c : c \in Bases(exc.cls))
    IN  IF matching = << >>
        THEN [propagates |-> TRUE, result |-> result]
        ELSE [propagates |-> FALSE,
              result |-> [result EXCEPT
                             !.errors = Append(@, HandlerMessage(matching[1], exc))]]

\* validate_rss_feed(url), given what requests.get does for url: the fetch,
\* the status check and the parse, each of which may raise, then the format
\* dispatch on the parsed root.
validate_rss_feed(url, fetch) ==
    LET result == InitialResult(url)
    IN  IF fetch.raises # None THEN Handle(result, fetch.raises[1])
        ELSE IF raise_for_status(fetch) # None
             THEN Handle(result, raise_for_status(fetch)[1])
        ELSE IF fromstring(fetch.content) # None
             THEN Handle(result, fromstring(fetch.content)[1])
        ELSE [propagates |-> FALSE,
              result |-> FormatDispatch(result, fetch.content.root)]

(***************************************************************************)
(* main                                                                    *)
(***************************************************************************)
Whitespace == {" ", "\t", "\n"}

\* str.strip() on the characters of a line.
RECURSIVE lstrip(_)
lstrip(line) ==
    IF line # << >> /\ Head(line) \in Whitespace THEN lstrip(Tail(line)) ELSE line

RECURSIVE rstrip(_)
rstrip(line) ==
    IF line # << >> /\ line[Len(line)] \in Whitespace
    THEN rstrip(SubSeq(line, 1, Len(line) - 1))
    ELSE line

\* The str made of the characters.
RECURSIVE Str(_)
Str(chars) == IF chars = << >> THEN "" ELSE Head(chars) \o Str(Tail(chars))

strip(line) == Str(rstrip(lstrip(line)))

\* line.startswith("#")
startswith(line, ch) == line # << >> /\ Head(line) = ch

\* [line.strip() for line in f if line.strip() and not line.startswith("#")]
RECURSIVE BatchUrls(_)
BatchUrls(lines) ==
    IF lines = << >> THEN << >>
    ELSE LET line == Head(lines)
         IN  IF strip(line) # "" /\ ~startswith(line, "#")
             THEN <<strip(line)>> \o BatchUrls(Tail(lines))
             ELSE BatchUrls(Tail(lines))

\* A line print() writes (the status line is written without its emoji).
Line(text) == [kind |-> "line", text |-> text, data |-> << >>]

\* What print(json.dumps(results, indent=2)) writes.
JsonDump(rs) == [kind |-> "json", text |-> "", data |-> rs]

\* The lines the loop body prints for one URL.
Report(a, url, result) ==
    (IF a.verbose /\ ~a.json THEN <<Line(""), Line("Validating: " \o url)>> ELSE << >>)
    \o (IF a.json THEN << >>
        ELSE <<Line((IF result.valid THEN "VALID" ELSE "INVALID") \o ": " \o url)>>
             \o (IF Truthy(result.title)
                 THEN <<Line("  Title: " \o result.title[1])>> ELSE << >>)
             \o <<Line("  Items: " \o ToString(result.item_count))>>
             \o (IF result.sample_headlines # << >>
                 THEN <<Line("  Sample: " \o Take(result.sample_headlines[1], 60) \o "...")>>
                 ELSE << >>)
             \o [k \in 1..Len(result.errors) |-> Line("  Error: " \o result.errors[k])])

\* all(r["valid"] for r in results)
AllValid(rs) == \A k \in 1..Len(rs) : rs[k].valid

\* Mutant of ExitStatus: any() where the code has all().
ExitStatus_Any(rs) == IF ~(\E k \in 1..Len(rs) : rs[k].valid) THEN 1 ELSE 0

\* The exit status at the end of main.
ExitStatus(rs) == IF ~AllValid(rs) THEN 1 ELSE 0

\* The argument namespace is read and the URL list built; with neither a
\* batch file nor a URL the usage is printed and the process exits with 1.
\* open() on a batch file that cannot be read raises out of main.
ParseArgs ==
    /\ pc = "start"
    /\ IF Truthy(args.batch)
       THEN IF args.lines = None
            THEN /\ pc' = "crashed"
                 /\ exitCode' = Some(1)
                 /\ UNCHANGED <<urls, stdout>>
            ELSE /\ urls' = BatchUrls(args.lines[1])
                 /\ pc' = "loop"
                 /\ UNCHANGED <<exitCode, stdout>>
       ELSE IF Truthy(args.url)
            THEN /\ urls' = <<args.url[1]>>
                 /\ pc' = "loop"
                 /\ UNCHANGED <<exitCode, stdout>>
            ELSE /\ stdout' = Append(stdout, Line("usage"))
                 /\ exitCode' = Some(1)
                 /\ pc' = "exited"
                 /\ UNCHANGED urls
    /\ UNCHANGED <<args, results, network, i>>

\* Mutant of LoopBody: the loop breaks after the first invalid result.
LoopBody_BreaksOnInvalid(Fetches) ==
    /\ pc = "loop"
    /\ i <= Len(urls)
    /\ \E response \in Fetches :
          LET url == urls[i]
              call == validate_rss_feed(url, response)
          IN  /\ network' = Append(network, [url |-> url, response |-> response])
              /\ IF call.propagates
                 THEN /\ pc' = "crashed"
                      /\ exitCode' = Some(1)
                      /\ UNCHANGED <<results, stdout, i>>
                 ELSE /\ results' = Append(results, call.result)
                      /\ stdout' = stdout \o Report(args, url, call.result)
                      /\ i' = IF call.result.valid THEN i + 1 ELSE Len(urls) + 1
                      /\ UNCHANGED <<pc, exitCode>>
    /\ UNCHANGED <<args, urls>>

\* One pass of the loop over urls: the URL is fetched and validated, the
\* result appended and reported.  Fetches is what requests.get may do; an
\* exception validate_rss_feed lets through ends the process with a traceback.
LoopBody(Fetches) ==
    /\ pc = "loop"
    /\ i <= Len(urls)
    /\ \E response \in Fetches :
          LET url == urls[i]
              call == validate_rss_feed(url, response)
          IN  /\ network' = Append(network, [url |-> url, response |-> response])
              /\ IF call.propagates
                 THEN /\ pc' = "crashed"
                      /\ exitCode' = Some(1)
                      /\ UNCHANGED <<results, stdout, i>>
                 ELSE /\ results' = Append(results, call.result)
                      /\ stdout' = stdout \o Report(args, url, call.result)
                      /\ i' = i + 1
                      /\ UNCHANGED <<pc, exitCode>>
    /\ UNCHANGED <<args, urls>>

\* After the loop: the JSON output, and the exit status.
Exit ==
    /\ pc = "loop"
    /\ i > Len(urls)
    /\ stdout' = IF args.json THEN Append(stdout, JsonDump(results)) ELSE stdout
    /\ exitCode' = Some(ExitStatus(results))
    /\ pc' = "exited"
    /\ UNCHANGED <<args, urls, results, network, i>>

(***************************************************************************)
(* The inputs: feed documents, what the network does, the command line.    *)
(***************************************************************************)
SeqsUpTo(S, n) == UNION {[1..k -> S] : k \in 0..n}

\* A child element that may be absent (None), present and empty (text
\* None), or present with a text.
ChildChoices(texts) == {None, Some(None)} \cup {Some(Some(t)) : t \in texts}
Child(tag, choice) ==
    IF choice = None THEN << >> ELSE <<Element(tag, choice[1], << >>)>>

\* <item>: a link, then the title and the pubDate the choices ask for.
RssItem(title, pubDate) ==
    Element("item", None,
            <<Element("link", Some("http://x"), << >>)>>
            \o Child("title", title) \o Child("pubDate", pubDate))

\* <entry> of an Atom feed.
AtomEntry(title) ==
    Element(AtomNS \o "entry", None,
            Child(AtomNS \o "title", title)
            \o <<Element(AtomNS \o "updated", Some("d1"), << >>)>>)

\* <rss><channel> title, language, items </channel></rss>
RssFeed(title, language, items) ==
    Element("rss", None,
            <<Element("channel", None,
                      Child("title", title) \o Child("language", language) \o items)>>)

\* <rss> with the items directly under the root, and no channel.
RssNoChannel(items) ==
    Element("rss", None, <<Element("title", Some("T"), << >>)>> \o items)

\* <feed xmlns="http://www.w3.org/2005/Atom"> title, entries </feed>
AtomFeed(title, entries) ==
    Element(AtomNS \o "feed", None, Child(AtomNS \o "title", title) \o entries)

\* A document with the shape of an RSS feed under another root tag.
OtherFeed(tag, items) ==
    Element(tag, None,
            <<Element("channel", None, <<Element("title", Some("T"), << >>)>> \o items)>>)

TitleChoices == ChildChoices({"a", "b"})
DateChoices == ChildChoices({"d1", "d2"})

\* Every item shape, for the short feeds.
ShortItems == {RssItem(t, d) : t \in TitleChoices, d \in DateChoices}

\* Three item shapes, for the long feeds: a title and no date, a title and
\* a date, a date and no title.
LongItems ==
    {RssItem(Some(Some("a")), None), RssItem(Some(Some("b")), Some(Some("d1"))),
     RssItem(None, Some(Some("d2")))}

ShortEntries == {AtomEntry(t) : t \in TitleChoices}
\* Two entry shapes, for the long Atom feeds: a title, no title.
LongEntries == {AtomEntry(None), AtomEntry(Some(Some("a")))}

OtherTags == {"html", "feed", "{http://www.w3.org/1999/02/22-rdf-syntax-ns#}RDF"}

\* The title and language children of the channel of the short feeds.
ChannelHeads ==
    {<<None, None>>, <<Some(None), Some(None)>>, <<Some(Some("T")), Some(Some("en"))>>}

Documents ==
    {RssFeed(h[1], h[2], items) :
        h \in ChannelHeads, items \in SeqsUpTo(ShortItems, MaxShortItems)}
    \cup {RssFeed(Some(Some("T")), None, items) : items \in SeqsUpTo(LongItems, MaxItems)}
    \cup {RssNoChannel(items) : items \in SeqsUpTo(LongItems, MaxShortItems)}
    \cup {AtomFeed(t, entries) :
            t \in ChildChoices({"T"}), entries \in SeqsUpTo(ShortEntries, MaxShortItems)}
    \cup {AtomFeed(Some(Some("T")), entries) : entries \in SeqsUpTo(LongEntries, MaxItems)}
    \cup {OtherFeed(tag, items) :
            tag \in OtherTags, items \in SeqsUpTo(LongItems, MaxShortItems)}

\* What requests.get raises.
GetExceptions ==
    {Exception("ReadTimeout", 0, "Read timed out."),
     Exception("ConnectTimeout", 0, "Connect timed out."),
     Exception("ConnectionError", 0, "Connection refused"),
     Exception("MissingSchema", 0, "Invalid URL")}

ParseMessages == {"no element found: line 1, column 0", "mismatched tag: line 3, column 2"}

TwoItemFeed ==
    RssFeed(Some(Some("T")), None,
            <<RssItem(Some(Some("a")), Some(Some("d1"))), RssItem(Some(Some("b")), None)>>)
OneItemFeed == RssFeed(Some(Some("T")), None, <<RssItem(Some(Some("a")), None)>>)

\* What requests.get may do for the URL of a feed: raise, answer 200 with
\* any document or a malformed body, or answer another status.
FeedFetches ==
    {GetRaises(e) : e \in GetExceptions}
    \cup {Response(200, WellFormed(d)) : d \in Documents}
    \cup {Response(st, Malformed(m)) : st \in {200, 204, 304, 404, 500}, m \in ParseMessages}
    \cup {Response(st, WellFormed(d)) :
            st \in {304, 404, 500}, d \in {TwoItemFeed, OtherFeed("html", << >>)}}

\* What requests.get may do for the URLs of a batch.
BatchFetches ==
    {GetRaises(Exception("ReadTimeout", 0, "Read timed out.")),
     Response(404, Malformed("no element found: line 1, column 0")),
     Response(200, WellFormed(TwoItemFeed)),
     Response(200, WellFormed(OneItemFeed))}

\* The lines a batch file is made of.
BatchLines ==
    {<<"\n">>, <<" ", "\n">>, <<"#", "a", "\n">>, <<" ", "#", "a", "\n">>,
     <<"a", "\n">>, <<" ", "b", " ", "\n">>}

\* The argument namespace, and the lines open(args.batch) yields (None when
\* the file cannot be opened).
BatchArgs ==
    [url : {None}, batch : {Some("feeds.txt")},
     verbose : BOOLEAN, json : BOOLEAN,
     lines : {None} \cup {Some(f) : f \in SeqsUpTo(BatchLines, MaxLines)}]
    \cup [url : {Some("u")}, batch : {Some("feeds.txt")},
          verbose : {FALSE}, json : {FALSE}, lines : {Some(<<<<"a", "\n">>>>)}]

UrlArgs ==
    [url : {None, Some(""), Some("u")}, batch : {None, Some("")},
     verbose : BOOLEAN, json : BOOLEAN, lines : {None}]

InitMain ==
    /\ pc = "start"
    /\ urls = << >>
    /\ i = 1
    /\ results = << >>
    /\ network = << >>
    /\ stdout = << >>
    /\ exitCode = None

\* The command line, with a batch file or a URL or neither.
Init == InitMain /\ args \in BatchArgs \cup UrlArgs

Next == ParseArgs \/ LoopBody(BatchFetches) \/ Exit

Spec == Init /\ [][Next]_vars

\* The command line with one URL (or none), and every feed the URL may
\* answer with.
InitFeed ==
    /\ InitMain
    /\ args \in [url : {None, Some("http://feed")}, batch : {None},
                 verbose : {FALSE}, json : {FALSE}, lines : {None}]

NextFeed == ParseArgs \/ LoopBody(FeedFetches) \/ Exit

SpecFeed == InitFeed /\ [][NextFeed]_vars

(***************************************************************************)
(* Vocabulary of the properties.  Call k of validate_rss_feed is the k-th  *)
(* request on the network; its result, once returned, is results[k].       *)
(***************************************************************************)
FetchOf(k) == network[k].response

\* The fetch raised a timeout.
TimedOut(f) == f.raises # None /\ f.raises[1].cls \in {"ReadTimeout", "ConnectTimeout"}

\* The fetch raised something that is not a timeout.
OtherFailure(f) == f.raises # None /\ ~TimedOut(f)

\* The server answered, with a status outside 200..299.
Non2xx(f) == f.raises = None /\ ~(f.status_code \in 200..299)

\* The server answered, with a 4xx or 5xx status.
ClientOrServerError(f) == f.raises = None /\ f.status_code \in 400..599

\* The server answered, with a body that is not well-formed XML.
MalformedBody(f) == f.raises = None /\ f.content.error # None

\* The document was fetched and parsed: the validator holds its root.
FetchedAndParsed(f) ==
    f.raises = None /\ ~ClientOrServerError(f) /\ f.content.error = None

RootOf(f) == f.content.root

IsRss(f) == FetchedAndParsed(f) /\ RootOf(f).tag = "rss"
IsAtom(f) == FetchedAndParsed(f) /\ RootOf(f).tag = "{http://www.w3.org/2005/Atom}feed"

\* The positions of the children of e with the given tag.
TaggedAt(e, tag) == {j \in 1..Len(e.children) : e.children[j].tag = tag}

FirstOf(S) == CHOOSE j \in S : \A m \in S : j <= m

\* The children of e with the given tag, in document order.
RECURSIVE InOrder(_, _, _)
InOrder(e, tag, from) ==
    IF from > Len(e.children) THEN << >>
    ELSE (IF e.children[from].tag = tag THEN <<e.children[from]>> ELSE << >>)
         \o InOrder(e, tag, from + 1)

\* The text of the first child of e with the given tag; "" when there is no
\* such child or it is empty.
TextOf(e, tag) ==
    IF TaggedAt(e, tag) = {} THEN ""
    ELSE LET c == e.children[FirstOf(TaggedAt(e, tag))]
         IN  IF c.text = << >> THEN "" ELSE c.text[1]

\* The items of the feed: the items of the first channel of an RSS root,
\* the entries of an Atom root.
ItemsOf(f) ==
    IF IsRss(f)
    THEN IF TaggedAt(RootOf(f), "channel") = {} THEN << >>
         ELSE InOrder(RootOf(f).children[FirstOf(TaggedAt(RootOf(f), "channel"))], "item", 1)
    ELSE IF IsAtom(f)
    THEN InOrder(RootOf(f), "{http://www.w3.org/2005/Atom}entry", 1)
    ELSE << >>

TitleOf(f, item) ==
    IF IsAtom(f) THEN TextOf(item, "{http://www.w3.org/2005/Atom}title")
    ELSE TextOf(item, "title")

\* The titles of the first n items, in document order ("" for no title).
TitlesOf(f, n) ==
    [j \in 1..(IF Len(ItemsOf(f)) < n THEN Len(ItemsOf(f)) ELSE n) |->
        TitleOf(f, ItemsOf(f)[j])]

\* The positions, among the first n items, of the items with a pubDate.
DatedAt(f, n) ==
    {j \in 1..Len(ItemsOf(f)) : j <= n /\ TextOf(ItemsOf(f)[j], "pubDate") # ""}

(***************************************************************************)
(* C1                                                                      *)
(***************************************************************************)
\* Every call has returned a result: no exception left validate_rss_feed.
NeverRaises == pc # "crashed" /\ Len(results) = Len(network)

\* C1 as stated: validate_rss_feed never raises, and a timeout, a non-2xx
\* status, a malformed body and any other exception each leave exactly one
\* entry in errors, the message of that kind.
C1_OneEntryPerFailure_AsStated ==
    /\ NeverRaises
    /\ \A k \in 1..Len(results) :
          LET f == FetchOf(k) IN
          /\ TimedOut(f) => results[k].errors = <<"Request timed out">>
          /\ Non2xx(f) =>
                results[k].errors = <<"HTTP error: " \o ToString(f.status_code)>>
          /\ (MalformedBody(f) /\ ~Non2xx(f)) =>
                results[k].errors = <<"XML parse error: " \o f.content.error[1]>>
          /\ OtherFailure(f) => results[k].errors = <<"Error: " \o f.raises[1].msg>>

\* C1 as amended: validate_rss_feed never raises, and a timeout, a 4xx or 5xx
\* status, a malformed body under any other status and any other exception
\* each leave exactly one entry in errors, the message of that kind.
C1_OneEntryPerFailure ==
    /\ NeverRaises
    /\ \A k \in 1..Len(results) :
          LET f == FetchOf(k) IN
          /\ TimedOut(f) => results[k].errors = <<"Request timed out">>
          /\ ClientOrServerError(f) =>
                results[k].errors = <<"HTTP error: " \o ToString(f.status_code)>>
          /\ (MalformedBody(f) /\ ~ClientOrServerError(f)) =>
                results[k].errors = <<"XML parse error: " \o f.content.error[1]>>
          /\ OtherFailure(f) => results[k].errors = <<"Error: " \o f.raises[1].msg>>

\* A connection failure, neither a timeout nor a status nor a parse error,
\* was returned as a result.
C1_Witness ==
    /\ Len(results) = 1
    /\ OtherFailure(FetchOf(1))
    /\ results[1].errors = <<"Error: Connection refused">>

(***************************************************************************)
(* C2                                                                      *)
(***************************************************************************)
\* C2: in every returned result, valid is true exactly when errors is empty.
C2_ValidIffNoErrors ==
    \A k \in 1..Len(results) : results[k].valid <=> (results[k].errors = << >>)

\* A feed with two items and no title on either was returned: the item
\* count passes, the headline check fails.
C2_Witness ==
    /\ Len(results) = 1
    /\ results[1].item_count = 2
    /\ results[1].errors = <<"No headlines found in feed">>
    /\ ~results[1].valid

(***************************************************************************)
(* C3                                                                      *)
(***************************************************************************)
\* C3: a fetched and parsed document whose root is neither rss nor the Atom
\* feed gives item_count 0, valid false and the one error "Unknown feed
\* format: <tag>", so neither check's message appears.
C3_UnknownFormat ==
    \A k \in 1..Len(results) :
       LET f == FetchOf(k) IN
       (FetchedAndParsed(f) /\ ~IsRss(f) /\ ~IsAtom(f)) =>
          /\ results[k].item_count = 0
          /\ ~results[k].valid
          /\ results[k].errors = <<"Unknown feed format: " \o RootOf(f).tag>>

\* A document with root "feed" outside the Atom namespace, holding a
\* channel with an item, was returned.
C3_Witness ==
    /\ Len(results) = 1
    /\ FetchedAndParsed(FetchOf(1))
    /\ RootOf(FetchOf(1)).tag = "feed"
    /\ \E c \in 1..Len(RootOf(FetchOf(1)).children) :
          TaggedAt(RootOf(FetchOf(1)).children[c], "item") # {}
    /\ results[1].errors = <<"Unknown feed format: feed">>

(***************************************************************************)
(* C4                                                                      *)
(***************************************************************************)
\* C4: an RSS feed with at least 2 items, each with a title, is valid with
\* no errors; an RSS feed with exactly 1 item, with a title, has the one
\* error "Feed has fewer than 2 items", one headline and is invalid; and for
\* a recognised format errors is "Feed has fewer than 2 items" (iff
\* item_count < 2) followed by "No headlines found in feed" (iff
\* sample_headlines is empty).
C4_ValidationChecks ==
    \A k \in 1..Len(results) :
       LET f == FetchOf(k)
           items == ItemsOf(f)
           allTitled == \A j \in 1..Len(items) : TitleOf(f, items[j]) # ""
       IN
       /\ (IsRss(f) /\ Len(items) >= 2 /\ allTitled) =>
             (results[k].valid /\ results[k].errors = << >>)
       /\ (IsRss(f) /\ Len(items) = 1 /\ allTitled) =>
             /\ results[k].errors = <<"Feed has fewer than 2 items">>
             /\ Len(results[k].sample_headlines) = 1
             /\ ~results[k].valid
       /\ (IsRss(f) \/ IsAtom(f)) =>
             results[k].errors =
                (IF results[k].item_count < 2
                 THEN <<"Feed has fewer than 2 items">> ELSE << >>)
                \o (IF results[k].sample_headlines = << >>
                    THEN <<"No headlines found in feed">> ELSE << >>)

\* An RSS feed with exactly two items, both titled, was returned valid.
C4_Witness ==
    /\ Len(results) = 1
    /\ IsRss(FetchOf(1))
    /\ Len(ItemsOf(FetchOf(1))) = 2
    /\ results[1].sample_headlines = <<"a", "b">>
    /\ results[1].valid

(***************************************************************************)
(* C5                                                                      *)
(***************************************************************************)
\* C5 as stated: for an RSS feed latest_date is the pubDate of the first
\* item, over all items of the channel, with a non-empty pubDate, and is
\* absent exactly when no item of the channel has one.
C5_LatestDate_AsStated ==
    \A k \in 1..Len(results) :
       LET f == FetchOf(k)
           dated == DatedAt(f, Len(ItemsOf(f)))
       IN  IsRss(f) =>
              results[k].latest_date =
                 (IF dated = {} THEN << >>
                  ELSE <<TextOf(ItemsOf(f)[FirstOf(dated)], "pubDate")>>)

\* C5 as amended: for an RSS feed latest_date is the pubDate of the first
\* item, among the first 5 items of the channel, with a non-empty pubDate,
\* and is absent exactly when none of the first 5 items has one.  Dates of
\* later items never replace it.
C5_LatestDate ==
    \A k \in 1..Len(results) :
       LET f == FetchOf(k)
           dated == DatedAt(f, 5)
       IN  IsRss(f) =>
              results[k].latest_date =
                 (IF dated = {} THEN << >>
                  ELSE <<TextOf(ItemsOf(f)[FirstOf(dated)], "pubDate")>>)

\* An RSS feed whose first item has no pubDate, whose second has one and
\* whose third has another was returned with the second item's date.
C5_Witness ==
    /\ Len(results) = 1
    /\ IsRss(FetchOf(1))
    /\ Len(ItemsOf(FetchOf(1))) >= 3
    /\ TextOf(ItemsOf(FetchOf(1))[1], "pubDate") = ""
    /\ TextOf(ItemsOf(FetchOf(1))[2], "pubDate") = "d1"
    /\ TextOf(ItemsOf(FetchOf(1))[3], "pubDate") = "d2"
    /\ results[1].latest_date = <<"d1">>

(***************************************************************************)
(* C6                                                                      *)
(***************************************************************************)
\* C6 as stated: for every RSS feed with 7 items, sample_headlines has
\* exactly 5 entries, the titles of the first 5 items in document order.
C6_SevenItems_AsStated ==
    \A k \in 1..Len(results) :
       LET f == FetchOf(k) IN
       (IsRss(f) /\ Len(ItemsOf(f)) = 7) =>
          /\ Len(results[k].sample_headlines) = 5
          /\ results[k].sample_headlines = TitlesOf(f, 5)

\* C6 as amended: for every RSS feed with 7 items whose first 5 items each
\* have a non-empty title, sample_headlines has exactly 5 entries, the
\* titles of the first 5 items in document order.
C6_SevenItems ==
    \A k \in 1..Len(results) :
       LET f == FetchOf(k) IN
       (IsRss(f) /\ Len(ItemsOf(f)) = 7
          /\ \A j \in 1..5 : TitleOf(f, ItemsOf(f)[j]) # "") =>
          /\ Len(results[k].sample_headlines) = 5
          /\ results[k].sample_headlines = TitlesOf(f, 5)

\* An RSS feed with 7 items was returned with the five headlines of its
\* first five items, which are not all the same.
C6_Witness ==
    /\ Len(results) = 1
    /\ IsRss(FetchOf(1))
    /\ results[1].item_count = 7
    /\ results[1].sample_headlines = <<"a", "b", "b", "a", "b">>

(***************************************************************************)
(* C7                                                                      *)
(***************************************************************************)
\* C7: in every returned result, RSS or Atom, sample_headlines has at most
\* min(5, item_count) entries and is the non-empty titles of the first 5
\* items in document order; an item without a title is skipped and no later
\* item takes its place.
C7_SampleHeadlines ==
    \A k \in 1..Len(results) :
       LET f == FetchOf(k)
           r == results[k]
       IN
       /\ Len(r.sample_headlines) <= 5
       /\ Len(r.sample_headlines) <= r.item_count
       /\ r.sample_headlines = SelectSeq(TitlesOf(f, 5), LAMBDA t : t # "")

\* An Atom feed with more than 5 entries, one of the first five without a
\* title and the sixth with one, was returned with four headlines.
C7_Witness ==
    /\ Len(results) = 1
    /\ IsAtom(FetchOf(1))
    /\ results[1].item_count > 5
    /\ TitleOf(FetchOf(1), ItemsOf(FetchOf(1))[6]) # ""
    /\ Len(results[1].sample_headlines) = 4

(***************************************************************************)
(* C8                                                                      *)
(***************************************************************************)
\* C8: after a timeout or a malformed body the result is the initial result
\* but for errors: the input URL, valid false, title, latest_date and
\* language absent, item_count 0, no headlines; after a timeout errors is
\* ["Request timed out"].
C8_FailureKeepsDefaults ==
    \A k \in 1..Len(results) :
       LET f == FetchOf(k)
           r == results[k]
       IN
       /\ (TimedOut(f) \/ MalformedBody(f)) =>
             /\ r.url = network[k].url
             /\ r.url = urls[k]
             /\ r.valid = FALSE
             /\ r.title = << >>
             /\ r.latest_date = << >>
             /\ r.language = << >>
             /\ r.item_count = 0
             /\ r.sample_headlines = << >>
             /\ Len(r.errors) = 1
       /\ TimedOut(f) => r.errors = <<"Request timed out">>

\* A 200 response with a malformed body was returned as a parse error.
C8_Witness ==
    /\ Len(results) = 1
    /\ MalformedBody(FetchOf(1))
    /\ FetchOf(1).status_code = 200
    /\ results[1].errors = <<"XML parse error: mismatched tag: line 3, column 2">>

(***************************************************************************)
(* C9                                                                      *)
(***************************************************************************)
\* Neither a batch file nor a URL was given.
NoInput == args.batch \in {<< >>, <<"">>} /\ args.url \in {<< >>, <<"">>}

\* C9: the exit code is 0 if every processed result is valid and 1
\* otherwise, for a single URL and for the URLs of a batch file, one that
\* leaves no URL included; with neither a URL nor a batch file the exit code
\* is 1 and no URL is validated.
C9_ExitCode ==
    /\ pc = "exited" =>
          IF NoInput
          THEN exitCode = <<1>> /\ network = << >> /\ results = << >>
          ELSE /\ Len(results) = Len(urls)
               /\ exitCode = IF \A k \in 1..Len(results) : results[k].valid
                             THEN <<0>> ELSE <<1>>
    /\ pc \in {"start", "loop"} => exitCode = << >>

\* A batch file of comment and blank lines only left no URL, and the process
\* exited with 0.
C9_Witness ==
    /\ pc = "exited"
    /\ args.batch = <<"feeds.txt">>
    /\ args.lines # << >>
    /\ Len(args.lines[1]) = 2
    /\ urls = << >>
    /\ exitCode = <<0>>

(***************************************************************************)
(* C10                                                                     *)
(***************************************************************************)
\* The status lines of the human-readable output, in the order printed.
StatusLines ==
    SelectSeq(stdout, LAMBDA l :
       l.kind = "line"
       /\ \E k \in 1..Len(urls) :
             l.text \in {"VALID: " \o urls[k], "INVALID: " \o urls[k]})

\* C10: in batch mode the URLs are validated once each, in input order, one
\* after the other; results holds one result per URL in input order; an
\* invalid or failing feed never stops the URLs after it (the loop stands at
\* the first URL without a result, the process ends only with a result for
\* every URL, and only a batch file that cannot be opened ends it early); a
\* valid and an invalid URL together end with exit code 1 and both results
\* in the output.
C10_BatchInOrder ==
    (args.batch \notin {<< >>, <<"">>}) =>
       /\ Len(network) = Len(results)
       /\ Len(results) <= Len(urls)
       /\ \A k \in 1..Len(results) :
             network[k].url = urls[k] /\ results[k].url = urls[k]
       /\ pc = "loop" => i = Len(results) + 1
       /\ pc = "crashed" => (args.lines = << >> /\ network = << >>)
       /\ (pc = "exited") =>
             /\ Len(results) = Len(urls)
             /\ IF args.json
                THEN stdout = <<[kind |-> "json", text |-> "", data |-> results]>>
                ELSE StatusLines =
                        [k \in 1..Len(urls) |->
                           [kind |-> "line",
                            text |-> (IF results[k].valid THEN "VALID" ELSE "INVALID")
                                     \o ": " \o urls[k],
                            data |-> << >>]]
             /\ (\E k \in 1..Len(results) : ~results[k].valid) => exitCode = <<1>>

\* A batch of two URLs, the first invalid and the second valid, exited with
\* both results.
C10_Witness ==
    /\ pc = "exited"
    /\ args.batch = <<"feeds.txt">>
    /\ Len(urls) = 2
    /\ Len(results) = 2
    /\ ~results[1].valid
    /\ results[2].valid
    /\ exitCode = <<1>>

====
